---- MODULE Spec2Model ----
(***************************************************************************)
(* Model of carrier_verifier.py: CarrierVerifier.verify_carrier and the    *)
(* eight threshold rules it applies to a carrier snapshot.                 *)
(*                                                                         *)
(* Text is modelled as a sequence of one-character strings, so that        *)
(* str.upper() and str.replace() are computed character by character.      *)
(* Python floats are IEEE-754 binary64 values.  A float is modelled as     *)
(* sign * n * 2^w, where n is a natural number of at most 53 significant   *)
(* bits held as a sequence of base-512 digits (most significant first);    *)
(* true division and multiplication round to nearest, ties to even.        *)
(***************************************************************************)
EXTENDS Integers, Sequences, FiniteSets, TLC

\* ------------------------------------------------------------------------
\* IEEE-754 binary64 arithmetic
\* ------------------------------------------------------------------------

\* number of significant bits of a binary64 value
MantBits == 53

RECURSIVE Pow2(_)
Pow2(n) == IF n = 0 THEN 1 ELSE 2 * Pow2(n - 1)

Abs(x) == IF x < 0 THEN -x ELSE x

RECURSIVE BitLen(_)
\* number of binary digits of a natural number
BitLen(n) == IF n = 0 THEN 0 ELSE 1 + BitLen(n \div 2)

\* natural numbers of any size are sequences of digits below Limb
Limb == Pow2(9)
LimbBits == BitLen(Limb) - 1

RECURSIVE BigOfNat(_)
\* digits of a natural number (<<>> for 0)
BigOfNat(n) == IF n = 0 THEN <<>> ELSE Append(BigOfNat(n \div Limb), n % Limb)

\* drop leading zero digits
BigStrip(d) ==
  IF \A i \in 1..Len(d) : d[i] = 0 THEN <<>>
  ELSE SubSeq(d, CHOOSE i \in 1..Len(d) :
                   d[i] # 0 /\ \A j \in 1..(i - 1) : d[j] = 0, Len(d))

\* number of binary digits of a digit sequence without leading zeros
BigBitLen(d) == IF d = <<>> THEN 0 ELSE LimbBits * (Len(d) - 1) + BitLen(d[1])

RECURSIVE BigMulAdd(_, _, _)
\* d * k + c for naturals k, c with Limb * k + c within the integer range;
\* the result has one digit more than d
BigMulAdd(d, k, c) ==
  IF d = <<>> THEN <<c>>
  ELSE LET n == Len(d)
           v == d[n] * k + c
       IN Append(BigMulAdd(SubSeq(d, 1, n - 1), k, v \div Limb), v % Limb)

\* d * 2^s
BigShiftLeft(d, s) ==
  BigStrip(BigMulAdd(d, Pow2(s % LimbBits), 0))
    \o [i \in 1..(s \div LimbBits) |-> 0]

\* c < d on digit sequences without leading zeros
BigLess(c, d) ==
  IF Len(c) # Len(d) THEN Len(c) < Len(d)
  ELSE \E i \in 1..Len(c) : c[i] < d[i] /\ \A j \in 1..(i - 1) : c[j] = d[j]

\* d \div 2^c for c < LimbBits, digit by digit
BigShiftRight(d, c) ==
  LET unit == Pow2(c) IN
  BigStrip([i \in 1..Len(d) |->
              d[i] \div unit
                + (IF i = 1 THEN 0 ELSE (d[i - 1] % unit) * (Limb \div unit))])

FZero == [neg |-> FALSE, n |-> <<>>, w |-> 0]

\* round the natural number d, scaled by 2^w and followed by further
\* non-zero digits iff sticky, to MantBits significant bits: to nearest,
\* ties to even.  At most LimbBits - 1 bits are cut off, so they lie within
\* the last digit.
RoundBig(neg, d, sticky, w) ==
  LET cut  == BigBitLen(d) - MantBits
      last == d[Len(d)]
      unit == Pow2(cut)
      low  == last % unit
      odd  == (last \div unit) % 2 = 1
      up   == \/ 2 * low > unit
              \/ 2 * low = unit /\ (sticky \/ odd)
      adj  == (IF up THEN unit ELSE 0) - low
  IN IF cut <= 0 THEN [neg |-> neg, n |-> d, w |-> w]
     ELSE [neg |-> neg, w |-> w + cut,
           n |-> BigShiftRight(BigStrip(BigMulAdd(d, 1, adj)), cut)]

RECURSIVE QuotDigits(_, _, _)
\* the next n digits of r / q (0 <= r < q), followed by the remainder
QuotDigits(r, q, n) ==
  IF n = 0 THEN <<r>>
  ELSE <<(r * Limb) \div q>> \o QuotDigits((r * Limb) % q, q, n - 1)

RECURSIVE Log2Floor(_, _)
\* greatest k with q * 2^k <= p   (p >= q > 0)
Log2Floor(p, q) == IF 2 * q <= p THEN 1 + Log2Floor(p, 2 * q) ELSE 0

RECURSIVE Log2Ceil(_, _)
\* least k with p * 2^k >= q   (p > 0)
Log2Ceil(p, q) == IF p >= q THEN 0 ELSE 1 + Log2Ceil(2 * p, q)

\* Python true division int / int (b # 0): the binary64 nearest to a / b.
\* The quotient is scaled into [1, 2) and developed to MantBits + 1 bits.
FloatDiv(a, b) ==
  IF a = 0 THEN FZero
  ELSE LET p     == Abs(a)
           q     == Abs(b)
           e     == IF p >= q THEN Log2Floor(p, q) ELSE -Log2Ceil(p, q)
           pp    == IF e < 0 THEN p * Pow2(-e) ELSE p
           qq    == IF e > 0 THEN q * Pow2(e) ELSE q
           first == pp * Pow2(MantBits % LimbBits)
           ds    == <<first \div qq>>
                      \o QuotDigits(first % qq, qq, MantBits \div LimbBits)
       IN RoundBig((a < 0) # (b < 0), SubSeq(ds, 1, Len(ds) - 1),
                   ds[Len(ds)] # 0, e - MantBits)

\* the binary64 value of an integer below 2^53
FloatOfInt(t) == [neg |-> t < 0, n |-> BigOfNat(Abs(t)), w |-> 0]

\* Python float * int for a natural k below 2^(LimbBits - 1): the binary64
\* nearest to x * k
FloatMulInt(x, k) ==
  IF x.n = <<>> \/ k = 0 THEN FZero
  ELSE RoundBig(x.neg, BigStrip(BigMulAdd(x.n, k, 0)), FALSE, x.w)

\* u < v on the magnitudes of two floats
MagLess(u, v) ==
  IF v.n = <<>> THEN FALSE
  ELSE IF u.n = <<>> THEN TRUE
  ELSE IF u.w >= v.w THEN BigLess(BigShiftLeft(u.n, u.w - v.w), v.n)
  ELSE BigLess(u.n, BigShiftLeft(v.n, v.w - u.w))

\* Python comparison float <= int
FloatLeqInt(x, t) ==
  IF x.n = <<>> THEN t >= 0
  ELSE IF x.neg /\ t >= 0 THEN TRUE
  ELSE IF ~x.neg /\ t <= 0 THEN FALSE
  ELSE IF x.neg THEN ~MagLess(x, FloatOfInt(t))
  ELSE ~MagLess(FloatOfInt(t), x)

\* ------------------------------------------------------------------------
\* Text
\* ------------------------------------------------------------------------

LowerCase == <<"a", "b", "c", "d", "e", "f", "g", "h", "i", "j", "k", "l", "m", "n", "o", "p", "q", "r", "s", "t", "u", "v", "w", "x", "y", "z">>
UpperCase == <<"A", "B", "C", "D", "E", "F", "G", "H", "I", "J", "K", "L", "M", "N", "O", "P", "Q", "R", "S", "T", "U", "V", "W", "X", "Y", "Z">>

\* str.upper() on one character
UpperChar(c) ==
  IF \E i \in 1..Len(LowerCase) : LowerCase[i] = c
  THEN UpperCase[CHOOSE i \in 1..Len(LowerCase) : LowerCase[i] = c]
  ELSE c

\* str.lower() on one character
LowerChar(c) ==
  IF \E i \in 1..Len(UpperCase) : UpperCase[i] = c
  THEN LowerCase[CHOOSE i \in 1..Len(UpperCase) : UpperCase[i] = c]
  ELSE c

\* Upper leaving the text as it is
UpperOmitted(str) == str

\* str.upper()
Upper(str) == [i \in 1..Len(str) |-> UpperChar(str[i])]

\* str.replace(ch, "")
Remove(str, ch) == SelectSeq(str, LAMBDA c : c # ch)

\* the text constants of the rules
ACTIVE          == <<"A", "C", "T", "I", "V", "E">>
AUTHORIZED      == <<"A", "U", "T", "H", "O", "R", "I", "Z", "E", "D">>
NOT_AUTHORIZED  == <<"N", "O", "T", " ", "A", "U", "T", "H", "O", "R", "I", "Z", "E", "D">>
INACTIVE        == <<"I", "N", "A", "C", "T", "I", "V", "E">>
OUT_OF_SERVICE  == <<"O", "U", "T", " ", "O", "F", " ", "S", "E", "R", "V", "I", "C", "E">>
SATISFACTORY    == <<"S", "A", "T", "I", "S", "F", "A", "C", "T", "O", "R", "Y">>
CONDITIONAL     == <<"C", "O", "N", "D", "I", "T", "I", "O", "N", "A", "L">>
UNSATISFACTORY  == <<"U", "N", "S", "A", "T", "I", "S", "F", "A", "C", "T", "O", "R", "Y">>
NOT_RATED       == <<"N", "O", "T", " ", "R", "A", "T", "E", "D">>

\* An optional value is a sequence of at most one element: Missing is a key
\* that the snapshot (a JSON object) does not have, or the argument
\* phone_number left at its default None; Some(v) is the value v.
Missing == <<>>
Some(v) == <<v>>

\* dict.get(key, default)
Get(value, default) == IF value = Missing THEN default ELSE value[1]

\* ------------------------------------------------------------------------
\* The eight threshold rules
\* ------------------------------------------------------------------------

\* Rule 2: Authority Status
verify_authority_status(data) ==
  LET operating_status == Upper(Get(data.operating_status, <<>>)) IN
  IF operating_status \in {ACTIVE, AUTHORIZED} THEN "ACCEPT"
  ELSE IF operating_status \in {NOT_AUTHORIZED, INACTIVE, OUT_OF_SERVICE}
       THEN "DENY"
  ELSE "REVIEW"

\* Rule 3: Data Freshness.  The date text is held by what dateutil makes of
\* it: kind "missing" (no key, or null), "empty" (""), "unparseable"
\* (parser.parse raises), "naive" (a datetime without time zone) or "aware"
\* (a datetime with a time zone, e.g. a trailing Z); days is
\* (datetime.now() - date).days for the fixed now.  Subtracting an aware
\* datetime from the naive datetime.now() raises TypeError, which the
\* handler of line 63 catches like a parse error.
verify_data_freshness(data) ==
  LET mcs_150_date_str == data.mcs_150_form_date IN
  IF mcs_150_date_str.kind \in {"missing", "empty"} THEN "DENY"
  ELSE IF mcs_150_date_str.kind = "unparseable" THEN "DENY"
  ELSE IF mcs_150_date_str.kind = "aware" THEN "DENY"
  ELSE LET months_old == FloatDiv(mcs_150_date_str.days, 30) IN
       IF FloatLeqInt(months_old, 12) THEN "ACCEPT"
       ELSE IF FloatLeqInt(months_old, 24) THEN "REVIEW"
       ELSE "DENY"

\* verify_vehicle_oos_rate taking the absence of inspections as a pass
verify_vehicle_oos_rate_no_data_pass(data) ==
  LET vehicle        == Get(data.vehicle, [inspections |-> Missing,
                                           out_of_service |-> Missing])
      inspections    == Get(vehicle.inspections, 0)
      out_of_service == Get(vehicle.out_of_service, 0)
      oos_rate       == FloatMulInt(FloatDiv(out_of_service, inspections), 100)
  IN IF inspections = 0 THEN "ACCEPT"
     ELSE IF FloatLeqInt(oos_rate, 25) THEN "ACCEPT"
     ELSE IF FloatLeqInt(oos_rate, 30) THEN "REVIEW"
     ELSE "DENY"

\* Rule 4: Vehicle Out-of-Service Rate.  The counts of a snapshot are
\* integers, on which int(...) is the identity.
verify_vehicle_oos_rate(data) ==
  LET vehicle        == Get(data.vehicle, [inspections |-> Missing,
                                           out_of_service |-> Missing])
      inspections    == Get(vehicle.inspections, 0)
      out_of_service == Get(vehicle.out_of_service, 0)
      oos_rate       == FloatMulInt(FloatDiv(out_of_service, inspections), 100)
  IN IF inspections = 0 THEN "REVIEW"
     ELSE IF FloatLeqInt(oos_rate, 25) THEN "ACCEPT"
     ELSE IF FloatLeqInt(oos_rate, 30) THEN "REVIEW"
     ELSE "DENY"

\* Rule 5: Driver Out-of-Service Rate
verify_driver_oos_rate(data) ==
  LET driver         == Get(data.driver, [inspections |-> Missing,
                                          out_of_service |-> Missing])
      inspections    == Get(driver.inspections, 0)
      out_of_service == Get(driver.out_of_service, 0)
      oos_rate       == FloatMulInt(FloatDiv(out_of_service, inspections), 100)
  IN IF inspections = 0 THEN "REVIEW"
     ELSE IF FloatLeqInt(oos_rate, 7) THEN "ACCEPT"
     ELSE IF FloatLeqInt(oos_rate, 10) THEN "REVIEW"
     ELSE "DENY"

\* verify_crash_history testing the tow count before the single injury
verify_crash_history_reordered(data) ==
  LET us_crashes == Get(data.united_states_crashes,
                        [tow |-> Missing, injury |-> Missing,
                         fatal |-> Missing, total |-> Missing])
      tow    == Get(us_crashes.tow, 0)
      injury == Get(us_crashes.injury, 0)
      fatal  == Get(us_crashes.fatal, 0)
  IN IF fatal > 0 \/ injury >= 2 THEN "DENY"
     ELSE IF tow <= 1 THEN "ACCEPT"
     ELSE IF injury = 1 THEN "REVIEW"
     ELSE "REVIEW"

\* Rule 6: Crash History
verify_crash_history(data) ==
  LET us_crashes == Get(data.united_states_crashes,
                        [tow |-> Missing, injury |-> Missing,
                         fatal |-> Missing, total |-> Missing])
      tow    == Get(us_crashes.tow, 0)
      injury == Get(us_crashes.injury, 0)
      fatal  == Get(us_crashes.fatal, 0)
  IN IF fatal > 0 \/ injury >= 2 THEN "DENY"
     ELSE IF injury = 1 THEN "REVIEW"
     ELSE IF tow <= 1 THEN "ACCEPT"
     ELSE "REVIEW"

\* Rule 7: Inspection Volume
verify_inspection_volume(data) ==
  LET none == [inspections |-> Missing, out_of_service |-> Missing]
      vehicle_inspections == Get(Get(data.vehicle, none).inspections, 0)
      driver_inspections  == Get(Get(data.driver, none).inspections, 0)
      hazmat_inspections  == Get(Get(data.hazmat, none).inspections, 0)
      total_inspections   ==
        vehicle_inspections + driver_inspections + hazmat_inspections
  IN IF total_inspections < 10 THEN "REVIEW" ELSE "ACCEPT"

\* verify_fleet_size with the lower threshold one too low
verify_fleet_size_lenient(data) ==
  LET power_units == Get(data.power_units, 0) IN
  IF power_units >= 5 THEN "ACCEPT"
  ELSE IF power_units >= 1 THEN "REVIEW"
  ELSE "DENY"

\* Rule 8: Fleet Size
verify_fleet_size(data) ==
  LET power_units == Get(data.power_units, 0) IN
  IF power_units >= 5 THEN "ACCEPT"
  ELSE IF power_units >= 2 THEN "REVIEW"
  ELSE "DENY"

\* Rule 10: Safety Rating.  null and "" are both falsy, like a missing key.
verify_safety_rating(data) ==
  LET safety_rating ==
        IF Get(data.safety_rating, <<>>) # <<>>
        THEN Upper(Get(data.safety_rating, <<>>))
        ELSE NOT_RATED
  IN IF safety_rating = SATISFACTORY THEN "ACCEPT"
     ELSE IF safety_rating \in {CONDITIONAL, UNSATISFACTORY} THEN "DENY"
     ELSE "REVIEW"

\* ------------------------------------------------------------------------
\* verify_carrier
\* ------------------------------------------------------------------------

VARIABLES
  provider,      \* the snapshot the data provider holds for the carrier
  pc,            \* position of the one call of verify_carrier
  usdot,         \* argument usdot
  phone_number,  \* argument phone_number (Missing for None)
  fetch_calls,   \* number of requests.get calls made
  data,          \* the snapshot returned by fetch_carrier_data
  results,       \* the dictionary results (Missing before line 174)
  evaluated,     \* the verify_* methods called so far, in order
  error          \* the exception that left verify_carrier, if any

vars == <<provider, pc, usdot, phone_number, fetch_calls, data, results, evaluated,
          error>>

RuleNames == <<"authority_status", "data_freshness", "vehicle_oos_rate",
               "driver_oos_rate", "crash_history", "inspection_volume",
               "fleet_size", "safety_rating">>

\* the verdict of each rule on a snapshot
RuleVerdict(name, d) ==
  CASE name = "authority_status"  -> verify_authority_status(d)
    [] name = "data_freshness"    -> verify_data_freshness(d)
    [] name = "vehicle_oos_rate"  -> verify_vehicle_oos_rate(d)
    [] name = "driver_oos_rate"   -> verify_driver_oos_rate(d)
    [] name = "crash_history"     -> verify_crash_history(d)
    [] name = "inspection_volume" -> verify_inspection_volume(d)
    [] name = "fleet_size"        -> verify_fleet_size(d)
    [] name = "safety_rating"     -> verify_safety_rating(d)

\* ---- inputs ----

USDOTs == {"44"}

SnapshotPhone == <<"(", "5", ")", " ", "1", "-", "2">>

\* the values of the argument phone_number
PhoneNumbers ==
  {Missing, Some(<<>>), Some(<<"5", "1", "-", "2">>), Some(<<"+", "5", "1", "2">>),
   Some(<<" ">>), Some(SnapshotPhone)}

\* the identifying fields of a snapshot: all present, or all absent
Identities ==
  {[legal_name |-> Some("ACME FREIGHT"), dba_name |-> Some("ACME"),
    phone |-> Some(SnapshotPhone)],
   [legal_name |-> Missing, dba_name |-> Missing, phone |-> Missing]}

Count(i, o) == Some([inspections |-> Some(i), out_of_service |-> Some(o)])
Crashes(t, i, f, n) ==
  Some([tow |-> Some(t), injury |-> Some(i), fatal |-> Some(f),
        total |-> Some(n)])
NaiveDate(days) == [kind |-> "naive", days |-> days]
NoDate == [kind |-> "missing", days |-> 0]

\* the snapshots of the full runs: for every rule one value per verdict
Snapshots ==
  { [legal_name |-> id.legal_name, dba_name |-> id.dba_name,
     phone |-> id.phone, operating_status |-> os, mcs_150_form_date |-> md,
     vehicle |-> ve, driver |-> dr, hazmat |-> hz,
     united_states_crashes |-> cr, power_units |-> pu, safety_rating |-> sr] :
    id \in Identities,
    os \in {Some(<<"A", "c", "t", "i", "v", "e">>), Some(<<"i", "n", "a", "c", "t", "i", "v", "e">>), Missing},
    md \in {NaiveDate(300), NaiveDate(600), NoDate},
    ve \in {Count(4, 1), Count(7, 2), Count(3, 1)},
    dr \in {Count(3, 0), Missing, Count(2, 1)},
    hz \in {Missing, Count(10, 0)},
    cr \in {Missing, Crashes(5, 1, 0, 6), Crashes(0, 0, 1, 1)},
    pu \in {Some(6), Some(3), Missing},
    sr \in {Some(<<"S", "a", "t", "i", "s", "f", "a", "c", "t", "o", "r", "y">>), Missing, Some(<<"c", "o", "n", "d", "i", "t", "i", "o", "n", "a", "l">>)} }

\* a snapshot on which all eight rules give ACCEPT
CleanSnapshot ==
  [legal_name |-> Some("ACME FREIGHT"), dba_name |-> Some("ACME"),
   phone |-> Some(SnapshotPhone), operating_status |-> Some(ACTIVE),
   mcs_150_form_date |-> NaiveDate(300),
   vehicle |-> Count(50, 5), driver |-> Count(50, 2), hazmat |-> Count(0, 0),
   united_states_crashes |-> Crashes(0, 0, 0, 0), power_units |-> Some(6),
   safety_rating |-> Some(SATISFACTORY)]

\* ---- inputs of the runs that exercise one rule ----

\* the greatest age in days, and the greatest number of days a date lies
\* in the future
MaxDays == 725
MaxFutureDays == 2

DateInputs ==
  {[kind |-> k, days |-> 0] : k \in {"missing", "empty", "unparseable"}}
    \cup {[kind |-> k, days |-> n] :
            k \in {"naive", "aware"}, n \in (-MaxFutureDays)..MaxDays}

FreshnessSnapshots ==
  {[CleanSnapshot EXCEPT !.mcs_150_form_date = d] : d \in DateInputs}

\* the greatest inspection and out-of-service counts drawn in full
MaxInspections == 12

OosInputs ==
  {Missing, Some([inspections |-> Missing, out_of_service |-> Missing])}
    \cup {Count(i, o) : i \in (0..MaxInspections) \cup {100},
                        o \in 0..MaxInspections}

OosSnapshots ==
  {[CleanSnapshot EXCEPT !.vehicle = c, !.driver = c] : c \in OosInputs}

\* the greatest tow, injury and fatal counts
MaxCrashes == 5

OptCount(max) == {Missing} \cup {Some(n) : n \in 0..max}

CrashInputs ==
  {Missing}
    \cup {Some([tow |-> t, injury |-> i, fatal |-> f, total |-> n]) :
            t \in OptCount(MaxCrashes), i \in OptCount(MaxCrashes),
            f \in OptCount(MaxCrashes), n \in {Missing, Some(0), Some(50)}}

CrashSnapshots ==
  {[CleanSnapshot EXCEPT !.united_states_crashes = c] : c \in CrashInputs}

\* the number of leading letters whose case is varied one by one
MaxLowered == 2

\* w with the letters at the positions S in lower case
LowerAt(w, S) == [i \in 1..Len(w) |-> IF i \in S THEN LowerChar(w[i]) ELSE w[i]]

CaseVariants(w) ==
  {LowerAt(w, S) : S \in SUBSET (1..MaxLowered)} \cup {LowerAt(w, 1..Len(w))}

StatusInputs ==
  {Missing}
    \cup {Some(v) : v \in UNION {CaseVariants(w) :
            w \in {ACTIVE, AUTHORIZED, NOT_AUTHORIZED, INACTIVE, OUT_OF_SERVICE,
                   <<"P", "E", "N", "D", "I", "N", "G">>, <<"A", "C", "T", "I", "V", "E", " ">>, <<>>}}}

RatingInputs ==
  {Missing}
    \cup {Some(v) : v \in UNION {CaseVariants(w) :
            w \in {SATISFACTORY, CONDITIONAL, UNSATISFACTORY, NOT_RATED,
                   <<"N", "O", "N", "E">>, <<>>}}}

TextSnapshots ==
  {[CleanSnapshot EXCEPT !.operating_status = os, !.safety_rating = sr] :
     os \in StatusInputs, sr \in RatingInputs}

\* the greatest fleet size
MaxPowerUnits == 7

FleetSnapshots ==
  { [CleanSnapshot EXCEPT
       !.operating_status = os, !.mcs_150_form_date = md, !.vehicle = ve,
       !.driver = dr, !.hazmat = hz, !.united_states_crashes = cr,
       !.power_units = pu, !.safety_rating = sr] :
    os \in {Some(ACTIVE), Some(INACTIVE)},
    md \in {NaiveDate(300), NaiveDate(600)},
    ve \in {Count(4, 1), Count(3, 1)},
    dr \in {Count(3, 0), Missing},
    hz \in {Missing, Count(10, 0)},
    cr \in {Crashes(0, 0, 0, 0), Crashes(5, 1, 0, 6)},
    pu \in OptCount(MaxPowerUnits),
    sr \in {Some(SATISFACTORY), Some(CONDITIONAL)} }

\* the greatest hazmat inspection count
MaxHazmat == 11

\* snapshots with and without vehicle and driver inspections, the hazmat
\* inspections on both sides of the volume threshold
SignalSnapshots ==
  { [CleanSnapshot EXCEPT
       !.operating_status = os, !.mcs_150_form_date = md, !.vehicle = ve,
       !.driver = dr, !.hazmat = hz, !.united_states_crashes = cr,
       !.power_units = pu, !.safety_rating = sr] :
    os \in {Some(ACTIVE), Missing},
    md \in {NaiveDate(300), NaiveDate(600)},
    ve \in {Missing, Count(0, 0), Count(0, 2), Count(4, 1)},
    dr \in {Missing, Count(0, 0), Count(3, 0)},
    hz \in {Missing} \cup {Count(h, 0) : h \in 0..MaxHazmat},
    cr \in {Crashes(0, 0, 0, 0), Crashes(0, 0, 1, 1)},
    pu \in {Some(6), Some(1)},
    sr \in {Some(SATISFACTORY), Missing} }

\* snapshots giving each rule each of the verdicts it can give
VerdictSnapshots ==
  { [CleanSnapshot EXCEPT
       !.operating_status = os, !.mcs_150_form_date = md, !.vehicle = ve,
       !.driver = dr, !.hazmat = hz, !.united_states_crashes = cr,
       !.power_units = pu, !.safety_rating = sr] :
    os \in {Some(ACTIVE), Missing, Some(INACTIVE)},
    md \in {NaiveDate(300), NaiveDate(600), NaiveDate(800)},
    ve \in {Count(4, 1), Count(0, 0), Count(3, 1)},
    dr \in {Count(3, 0), Count(0, 0), Count(2, 1)},
    hz \in {Missing, Count(10, 0)},
    cr \in {Crashes(0, 0, 0, 0), Crashes(0, 1, 0, 1), Crashes(0, 0, 1, 1)},
    pu \in {Some(6), Some(3), Some(1)},
    sr \in {Some(SATISFACTORY), Missing, Some(CONDITIONAL)} }

\* the ways fetch_carrier_data fails: HTTP 401, another HTTP error status,
\* a network failure, a body that is not JSON
FetchFailures == {"401", "http", "network", "malformed"}

\* the exception fetch_carrier_data raises.  A body that is not JSON makes
\* response.json() raise; depending on the version of requests that
\* exception is a RequestException (wrapped by line 34) or a plain
\* ValueError (not caught), so both are possible.
FetchErrors(cause) ==
  CASE cause = "401"       -> {"Unauthorized (401)"}
    [] cause = "http"      -> {"HTTP Error"}
    [] cause = "network"   -> {"Failed to fetch carrier data"}
    [] cause = "malformed" -> {"Failed to fetch carrier data", "ValueError"}

\* ---- state machine ----

NoReason == [prefix |-> <<>>, text |-> ""]

\* the state before the call, the provider holding one of the snapshots S
InitWith(S) ==
  /\ provider \in S
  /\ pc = "idle"
  /\ usdot = Missing
  /\ phone_number = Missing
  /\ fetch_calls = 0
  /\ data = Missing
  /\ results = Missing
  /\ evaluated = <<>>
  /\ error = Missing

Init == InitWith(Snapshots)

\* a caller invokes verify_carrier(usdot, phone_number)
Call ==
  /\ pc = "idle"
  /\ pc' = "fetch"
  /\ \E u \in USDOTs : usdot' = Some(u)
  /\ \E p \in PhoneNumbers : phone_number' = p
  /\ UNCHANGED <<provider, fetch_calls, data, results, evaluated, error>>

\* lines 174-181: the dictionary results as first built
NewResults(u, d) ==
  [usdot |-> u,
   carrier_name |-> Get(d.legal_name, "Unknown"),
   dba_name |-> Get(d.dba_name, ""),
   checks |-> <<>>,
   final_decision |-> "None",
   reason |-> NoReason,
   raw_data |-> Missing]

\* fetch_carrier_data returns a snapshot; lines 174-181 build results
FetchOk ==
  /\ pc = "fetch"
  /\ fetch_calls' = fetch_calls + 1
  /\ data' = Some(provider)
  /\ results' = Some(NewResults(usdot[1], provider))
  /\ pc' = "identity"
  /\ UNCHANGED <<provider, usdot, phone_number, evaluated, error>>

\* FetchFail with one more attempt after the first failure
FetchFailRetry ==
  /\ pc = "fetch"
  /\ fetch_calls' = fetch_calls + 1
  /\ IF fetch_calls = 0
     THEN pc' = "fetch" /\ error' = error
     ELSE /\ \E cause \in FetchFailures :
               \E e \in FetchErrors(cause) : error' = Some(e)
          /\ pc' = "error"
  /\ UNCHANGED <<provider, usdot, phone_number, data, results, evaluated>>

\* fetch_carrier_data raises; the exception leaves verify_carrier
FetchFail ==
  /\ pc = "fetch"
  /\ fetch_calls' = fetch_calls + 1
  /\ \E cause \in FetchFailures : \E e \in FetchErrors(cause) : error' = Some(e)
  /\ pc' = "error"
  /\ UNCHANGED <<provider, usdot, phone_number, data, results, evaluated>>

\* the normalisation of lines 185 and 186
StripPhone(t) == Remove(Remove(Remove(Remove(t, " "), "-"), "("), ")")

\* IdentityVerdict comparing the two texts as given
IdentityVerdictRaw(p, d) ==
  IF p # Missing /\ p[1] # <<>>
  THEN IF Get(d.phone, <<>>) = p[1] THEN "PASS" ELSE "FAIL"
  ELSE "SKIPPED"

\* Rule 1 (lines 184-195); a phone_number of None or "" is falsy
IdentityVerdict(p, d) ==
  IF p # Missing /\ p[1] # <<>>
  THEN IF StripPhone(Get(d.phone, <<>>)) = StripPhone(p[1])
       THEN "PASS" ELSE "FAIL"
  ELSE "SKIPPED"

SetCheck(r, name, verdict) ==
  [r EXCEPT !.checks = Append(@, <<name, verdict>>)]

\* Identity without the return of line 193
IdentityNoReturn ==
  /\ pc = "identity"
  /\ LET v == IdentityVerdict(phone_number, data[1])
         r == SetCheck(results[1], "identity_verification", v)
     IN /\ results' = Some(IF v = "FAIL"
                           THEN [r EXCEPT
                                   !.final_decision = "AUTO-REJECT",
                                   !.reason = [prefix |-> <<>>,
                                               text |-> "Phone number mismatch"]]
                           ELSE r)
        /\ pc' = RuleNames[1]
  /\ UNCHANGED <<provider, usdot, phone_number, fetch_calls, data, evaluated, error>>

Identity ==
  /\ pc = "identity"
  /\ LET v == IdentityVerdict(phone_number, data[1])
         r == SetCheck(results[1], "identity_verification", v)
     IN IF v = "FAIL"
        THEN /\ results' = Some([r EXCEPT
                                   !.final_decision = "AUTO-REJECT",
                                   !.reason = [prefix |-> <<>>,
                                               text |-> "Phone number mismatch"]])
             /\ pc' = "done"
        ELSE /\ results' = Some(r)
             /\ pc' = RuleNames[1]
  /\ UNCHANGED <<provider, usdot, phone_number, fetch_calls, data, evaluated, error>>

\* where verify_carrier continues after rule number i
AfterRule(i) == IF i < Len(RuleNames) THEN RuleNames[i + 1] ELSE "decision"

\* lines 197-219: the call of rule number i and the store of its verdict
Rule(i) ==
  /\ pc = RuleNames[i]
  /\ evaluated' = Append(evaluated, RuleNames[i])
  /\ results' = Some(SetCheck(results[1], RuleNames[i],
                              RuleVerdict(RuleNames[i], data[1])))
  /\ pc' = AfterRule(i)
  /\ UNCHANGED <<provider, usdot, phone_number, fetch_calls, data, error>>

AuthorityStatus  == Rule(1)
DataFreshness    == Rule(2)
VehicleOosRate   == Rule(3)
DriverOosRate    == Rule(4)
CrashHistory     == Rule(5)
InspectionVolume == Rule(6)
FleetSize        == Rule(7)
SafetyRating     == Rule(8)

\* list.count(v) over the values of results["checks"]
CountOf(checks, v) == Cardinality({i \in 1..Len(checks) : checks[i][2] = v})

\* FinalDecision asking for the REVIEW flags before the DENY flags
FinalDecisionReviewFirst(checks) ==
  LET deny_count   == CountOf(checks, "DENY")
      review_count == CountOf(checks, "REVIEW")
  IN IF review_count >= 2
     THEN [final_decision |-> "CONDITIONAL_APPROVAL",
           reason |-> [prefix |-> <<review_count>>,
                       text |-> " REVIEW flag(s) - requires increased monitoring"]]
     ELSE IF deny_count > 0
     THEN [final_decision |-> "AUTO-REJECT",
           reason |-> [prefix |-> <<deny_count>>, text |-> " DENY flag(s) found"]]
     ELSE [final_decision |-> "FULL_APPROVAL",
           reason |-> [prefix |-> <<>>, text |-> "All checks passed"]]

\* FinalDecision with a single REVIEW already withholding full approval
FinalDecisionStrict(checks) ==
  LET deny_count   == CountOf(checks, "DENY")
      review_count == CountOf(checks, "REVIEW")
  IN IF deny_count > 0
     THEN [final_decision |-> "AUTO-REJECT",
           reason |-> [prefix |-> <<deny_count>>,
                       text |-> " DENY flag(s) found"]]
     ELSE IF review_count >= 1
     THEN [final_decision |-> "CONDITIONAL_APPROVAL",
           reason |-> [prefix |-> <<review_count>>,
                       text |-> " REVIEW flag(s) - requires increased monitoring"]]
     ELSE [final_decision |-> "FULL_APPROVAL",
           reason |-> [prefix |-> <<>>, text |-> "All checks passed"]]

\* lines 222-234
FinalDecision(checks) ==
  LET deny_count   == CountOf(checks, "DENY")
      review_count == CountOf(checks, "REVIEW")
  IN IF deny_count > 0
     THEN [final_decision |-> "AUTO-REJECT",
           reason |-> [prefix |-> <<deny_count>>,
                       text |-> " DENY flag(s) found"]]
     ELSE IF review_count >= 2
     THEN [final_decision |-> "CONDITIONAL_APPROVAL",
           reason |-> [prefix |-> <<review_count>>,
                       text |-> " REVIEW flag(s) - requires increased monitoring"]]
     ELSE [final_decision |-> "FULL_APPROVAL",
           reason |-> [prefix |-> <<>>, text |-> "All checks passed"]]

\* lines 221-237
Decision ==
  /\ pc = "decision"
  /\ LET f == FinalDecision(results[1].checks)
     IN results' = Some([results[1] EXCEPT
                           !.final_decision = f.final_decision,
                           !.reason = f.reason,
                           !.raw_data = data])
  /\ pc' = "done"
  /\ UNCHANGED <<provider, usdot, phone_number, fetch_calls, data, evaluated, error>>

Next ==
  \/ Call
  \/ FetchOk
  \/ FetchFail
  \/ Identity
  \/ AuthorityStatus
  \/ DataFreshness
  \/ VehicleOosRate
  \/ DriverOosRate
  \/ CrashHistory
  \/ InspectionVolume
  \/ FleetSize
  \/ SafetyRating
  \/ Decision

Spec == Init /\ [][Next]_vars

\* the same runs over the inputs that exercise one rule
InitFreshness == InitWith(FreshnessSnapshots)
SpecFreshness == InitFreshness /\ [][Next]_vars

InitOos == InitWith(OosSnapshots)
SpecOos == InitOos /\ [][Next]_vars

InitCrash == InitWith(CrashSnapshots)
SpecCrash == InitCrash /\ [][Next]_vars

InitText == InitWith(TextSnapshots)
SpecText == InitText /\ [][Next]_vars

InitFleet == InitWith(FleetSnapshots)
SpecFleet == InitFleet /\ [][Next]_vars

InitSignal == InitWith(SignalSnapshots)
SpecSignal == InitSignal /\ [][Next]_vars

InitVerdicts == InitWith(VerdictSnapshots)
SpecVerdicts == InitVerdicts /\ [][Next]_vars

\* ------------------------------------------------------------------------
\* Properties
\* ------------------------------------------------------------------------

Returned == pc = "done"
Checks == results[1].checks
IdentityOutcome == Checks[1][2]

\* the verdict stored under a rule name
CheckOf(name) ==
  Checks[CHOOSE k \in 1..Len(Checks) : Checks[k][1] = name][2]

\* how many of the eight rules have the verdict v in the returned result
Tally(v) == Cardinality({i \in 1..Len(RuleNames) : CheckOf(RuleNames[i]) = v})

\* a claimed phone is supplied: phone_number is neither None nor empty
Supplied == phone_number # Missing /\ phone_number[1] # <<>>

\* a text without its spaces, hyphens and parentheses
Kept(str) == SelectSeq(str, LAMBDA c : c \notin {" ", "-", "(", ")"})

\* the claimed phone differs from the snapshot phone after normalisation
Mismatch ==
  Supplied /\ Kept(Get(provider.phone, <<>>)) # Kept(phone_number[1])

Text(t) == [prefix |-> <<>>, text |-> t]
Counted(n, t) == [prefix |-> <<n>>, text |-> t]

\* C1: a returned result that is not the identity short-circuit has its
\* decision fixed by the eight rule verdicts alone: one or more DENY gives
\* AUTO-REJECT with "<n> DENY flag(s) found"; else two or more REVIEW gives
\* CONDITIONAL_APPROVAL with "<n> REVIEW flag(s) - requires increased
\* monitoring"; else FULL_APPROVAL with "All checks passed"; the identity
\* verdict is in neither tally.
C1_Aggregation ==
  (Returned /\ IdentityOutcome # "FAIL") =>
    LET r == results[1] IN
    /\ Tally("DENY") > 0 =>
         /\ r.final_decision = "AUTO-REJECT"
         /\ r.reason = Counted(Tally("DENY"), " DENY flag(s) found")
    /\ (Tally("DENY") = 0 /\ Tally("REVIEW") >= 2) =>
         /\ r.final_decision = "CONDITIONAL_APPROVAL"
         /\ r.reason = Counted(Tally("REVIEW"),
                               " REVIEW flag(s) - requires increased monitoring")
    /\ (Tally("DENY") = 0 /\ Tally("REVIEW") <= 1) =>
         /\ r.final_decision = "FULL_APPROVAL"
         /\ r.reason = Text("All checks passed")

\* one DENY among five REVIEW verdicts, rejected
C1_Witness ==
  /\ Returned /\ IdentityOutcome = "PASS"
  /\ Tally("DENY") = 1 /\ Tally("REVIEW") = 5
  /\ results[1].final_decision = "AUTO-REJECT"

\* C2: once the identity check has run on a supplied claimed phone that
\* differs from the snapshot phone after normalisation, verify_carrier has
\* returned AUTO-REJECT with reason "Phone number mismatch", a checks map
\* holding only identity_verification: FAIL, and no rule evaluated; every
\* other return comes after all eight rules.
C2_ShortCircuit ==
  /\ (Mismatch /\ pc \notin {"idle", "fetch", "identity", "error"}) =>
       /\ pc = "done"
       /\ results[1].final_decision = "AUTO-REJECT"
       /\ results[1].reason = Text("Phone number mismatch")
       /\ Checks = << <<"identity_verification", "FAIL">> >>
       /\ evaluated = <<>>
  /\ (Returned /\ ~Mismatch) => evaluated = RuleNames

\* a mismatch that only the missing country code causes
C2_Witness ==
  /\ Returned /\ Mismatch
  /\ phone_number = Some(<<"+", "5", "1", "2">>)
  /\ provider.phone = Some(SnapshotPhone)

\* C3: after the identity check the verdict is SKIPPED when no claimed
\* phone is supplied and, when one is, PASS exactly when both phones are
\* equal after dropping spaces, hyphens and parentheses; the snapshot's own
\* phone gives PASS; with SKIPPED and with PASS alike all eight rules run,
\* and their verdicts and the decision depend on the snapshot alone.
C3_IdentityVerdict ==
  (pc \notin {"idle", "fetch", "identity", "error"}) =>
    /\ ~Supplied => IdentityOutcome = "SKIPPED"
    /\ Supplied => (IdentityOutcome = "PASS" <=> ~Mismatch)
    /\ Supplied => IdentityOutcome \in {"PASS", "FAIL"}
    /\ (Supplied /\ phone_number = provider.phone) => IdentityOutcome = "PASS"
    /\ (Returned /\ IdentityOutcome \in {"SKIPPED", "PASS"}) =>
         /\ evaluated = RuleNames
         /\ \A i \in 1..Len(RuleNames) :
              Checks[i + 1] = <<RuleNames[i], RuleVerdict(RuleNames[i], provider)>>
         /\ results[1].final_decision =
              (IF \E i \in 1..Len(RuleNames) :
                    RuleVerdict(RuleNames[i], provider) = "DENY"
               THEN "AUTO-REJECT"
               ELSE IF Cardinality({i \in 1..Len(RuleNames) :
                         RuleVerdict(RuleNames[i], provider) = "REVIEW"}) >= 2
               THEN "CONDITIONAL_APPROVAL"
               ELSE "FULL_APPROVAL")

\* a differently formatted claimed phone passes and the run completes
C3_Witness ==
  /\ Returned /\ IdentityOutcome = "PASS"
  /\ phone_number = Some(<<"5", "1", "-", "2">>)
  /\ provider.phone = Some(SnapshotPhone)
  /\ Len(Checks) = Len(RuleNames) + 1

\* C4: a failed fetch ends the verification: one fetch attempt was made, no
\* identity check and no rule ran, no result exists, the cause is reported,
\* and nothing further happens.
C4_FetchFailureTerminal ==
  /\ fetch_calls <= 1
  /\ error # Missing => pc = "error"
  /\ pc = "error" =>
       /\ fetch_calls = 1
       /\ error # Missing
       /\ error[1] \in {"Unauthorized (401)", "HTTP Error",
                        "Failed to fetch carrier data", "ValueError"}
       /\ data = Missing
       /\ results = Missing
       /\ evaluated = <<>>
       /\ ~ENABLED Next

\* the provider answered 401
C4_Witness == pc = "error" /\ error = Some("Unauthorized (401)")

\* C5: every returned result carries the identifier, the names, a checks
\* map, a decision among the three, a reason and the raw snapshot; without
\* the short-circuit the checks map has the nine entries in the fixed order.
C5_CompleteResult ==
  Returned =>
    LET r == results[1] IN
    /\ r.usdot = usdot[1]
    /\ r.carrier_name = Get(provider.legal_name, "Unknown")
    /\ r.dba_name = Get(provider.dba_name, "")
    /\ r.final_decision \in {"AUTO-REJECT", "CONDITIONAL_APPROVAL", "FULL_APPROVAL"}
    /\ r.reason # NoReason
    /\ Len(r.checks) >= 1
    /\ r.raw_data = Some(provider)
    /\ IdentityOutcome # "FAIL" =>
         [i \in 1..Len(r.checks) |-> r.checks[i][1]]
           = <<"identity_verification">> \o RuleNames


\* the rule has been evaluated in this run
Evaluated(name) == \E k \in 1..Len(evaluated) : evaluated[k] = name

\* C6: a missing, empty or unparseable date gives DENY; any other date
\* gives ACCEPT up to 360 days of age, REVIEW from 361 to 720 days and DENY
\* beyond, so the verdict never improves with age.
C6_Freshness ==
  Evaluated("data_freshness") =>
    LET d == provider.mcs_150_form_date
        v == CheckOf("data_freshness")
    IN IF d.kind \in {"missing", "empty", "unparseable"} THEN v = "DENY"
       ELSE /\ d.days <= 360 => v = "ACCEPT"
            /\ (360 < d.days /\ d.days <= 720) => v = "REVIEW"
            /\ d.days > 720 => v = "DENY"

\* the verdict the claim gives a rate of o out of i against two thresholds
RateVerdict(o, i, accept, review) ==
  IF i = 0 THEN "REVIEW"
  ELSE IF 100 * o <= accept * i THEN "ACCEPT"
  ELSE IF 100 * o <= review * i THEN "REVIEW"
  ELSE "DENY"

\* C7: without inspections both out-of-service rules give REVIEW; otherwise
\* the vehicle rule gives ACCEPT up to 25 percent, REVIEW up to 30 percent
\* and DENY above, and the driver rule the same with 7 and 10 percent, a
\* rate exactly on a threshold falling in the lower tier.
C7_OosRates ==
  LET none == [inspections |-> Missing, out_of_service |-> Missing]
      ve == Get(provider.vehicle, none)
      dr == Get(provider.driver, none)
  IN /\ Evaluated("vehicle_oos_rate") =>
          CheckOf("vehicle_oos_rate") =
            RateVerdict(Get(ve.out_of_service, 0), Get(ve.inspections, 0), 25, 30)
     /\ Evaluated("driver_oos_rate") =>
          CheckOf("driver_oos_rate") =
            RateVerdict(Get(dr.out_of_service, 0), Get(dr.inspections, 0), 7, 10)

\* C8: the crash verdict is DENY for a fatality or two or more injuries;
\* else REVIEW for exactly one injury whatever the tow count; else ACCEPT
\* for at most one tow; else REVIEW.  Missing counts are 0 and the total
\* count plays no part.
C8_CrashHistory ==
  Evaluated("crash_history") =>
    LET c == Get(provider.united_states_crashes,
                 [tow |-> Missing, injury |-> Missing, fatal |-> Missing,
                  total |-> Missing])
        tow    == Get(c.tow, 0)
        injury == Get(c.injury, 0)
        fatal  == Get(c.fatal, 0)
        v      == CheckOf("crash_history")
    IN /\ (fatal > 0 \/ injury >= 2) => v = "DENY"
       /\ (fatal = 0 /\ injury = 1) => v = "REVIEW"
       /\ (fatal = 0 /\ injury = 0 /\ tow <= 1) => v = "ACCEPT"
       /\ (fatal = 0 /\ injury = 0 /\ tow >= 2) => v = "REVIEW"

\* no fatality, one injury, five tows: REVIEW
C8_Witness ==
  /\ Evaluated("crash_history")
  /\ provider.united_states_crashes # Missing
  /\ provider.united_states_crashes[1].tow = Some(5)
  /\ provider.united_states_crashes[1].injury = Some(1)
  /\ provider.united_states_crashes[1].fatal = Some(0)
  /\ CheckOf("crash_history") = "REVIEW"

\* the text t is the word w up to the case of its letters
SameWord(t, w) ==
  /\ Len(t) = Len(w)
  /\ \A i \in 1..Len(w) : t[i] = w[i] \/ t[i] = LowerChar(w[i])

\* C9: the authority verdict is ACCEPT for ACTIVE or AUTHORIZED, DENY for
\* NOT AUTHORIZED, INACTIVE or OUT OF SERVICE, and REVIEW for anything else,
\* an empty or missing status included; the safety-rating verdict is ACCEPT
\* for SATISFACTORY, DENY for CONDITIONAL or UNSATISFACTORY and REVIEW for
\* anything else, NOT RATED, empty and missing included; both whatever the
\* case of the letters.
C9_TextRules ==
  LET os == Get(provider.operating_status, <<>>)
      sr == Get(provider.safety_rating, <<>>)
      Among(t, W) == \E w \in W : SameWord(t, w)
  IN /\ Evaluated("authority_status") =>
          CheckOf("authority_status") =
            (IF Among(os, {ACTIVE, AUTHORIZED}) THEN "ACCEPT"
             ELSE IF Among(os, {NOT_AUTHORIZED, INACTIVE, OUT_OF_SERVICE})
                  THEN "DENY"
             ELSE "REVIEW")
     /\ Evaluated("safety_rating") =>
          CheckOf("safety_rating") =
            (IF Among(sr, {SATISFACTORY}) THEN "ACCEPT"
             ELSE IF Among(sr, {CONDITIONAL, UNSATISFACTORY}) THEN "DENY"
             ELSE "REVIEW")

\* a status and a rating in mixed case, accepted and denied
C9_Witness ==
  /\ Evaluated("safety_rating")
  /\ provider.operating_status = Some(<<"a", "C", "T", "I", "V", "E">>)
  /\ provider.safety_rating = Some(<<"c", "o", "n", "d", "i", "t", "i", "o", "n", "a", "l">>)
  /\ CheckOf("authority_status") = "ACCEPT"
  /\ CheckOf("safety_rating") = "DENY"

\* C10: the fleet-size verdict is ACCEPT from 5 power units, REVIEW for 2
\* to 4 and DENY for 0, 1 or a missing count; a run without the identity
\* short-circuit on a snapshot with fewer than 2 power units returns
\* AUTO-REJECT with a DENY count of at least 1, and of exactly 1 when the
\* other seven verdicts are ACCEPT.
C10_FleetSize ==
  LET pu == Get(provider.power_units, 0) IN
  /\ Evaluated("fleet_size") =>
       CheckOf("fleet_size") =
         (IF pu >= 5 THEN "ACCEPT" ELSE IF pu >= 2 THEN "REVIEW" ELSE "DENY")
  /\ (Returned /\ IdentityOutcome # "FAIL" /\ pu < 2) =>
       /\ results[1].final_decision = "AUTO-REJECT"
       /\ results[1].reason.text = " DENY flag(s) found"
       /\ results[1].reason.prefix = <<Tally("DENY")>>
       /\ Tally("DENY") >= 1
       /\ Tally("ACCEPT") = Len(RuleNames) - 1 =>
            results[1].reason = Counted(1, " DENY flag(s) found")

\* one power unit on an otherwise clean snapshot
C10_Witness ==
  /\ Returned /\ IdentityOutcome # "FAIL"
  /\ provider.power_units = Some(1)
  /\ Tally("ACCEPT") = Len(RuleNames) - 1
  /\ results[1].reason = Counted(1, " DENY flag(s) found")

\* the inspections count of one kind in the provider's snapshot
InspectionsOf(kind) ==
  Get(Get(kind, [inspections |-> Missing, out_of_service |-> Missing]).inspections, 0)

\* the snapshot has neither vehicle nor driver inspections
NoSignal ==
  InspectionsOf(provider.vehicle) = 0 /\ InspectionsOf(provider.driver) = 0

\* C11: on a snapshot without vehicle and driver inspections both
\* out-of-service verdicts are REVIEW, the inspection-volume verdict is
\* REVIEW too when the hazmat inspections are below 10, and a run without
\* the identity short-circuit never returns FULL_APPROVAL; any returned
\* FULL_APPROVAL has no DENY verdict, at most one REVIEW verdict and an
\* identity verdict other than FAIL.
C11_NoSignalNoFullApproval ==
  /\ (NoSignal /\ Evaluated("vehicle_oos_rate")) =>
       CheckOf("vehicle_oos_rate") = "REVIEW"
  /\ (NoSignal /\ Evaluated("driver_oos_rate")) =>
       CheckOf("driver_oos_rate") = "REVIEW"
  /\ (NoSignal /\ Evaluated("inspection_volume")
        /\ InspectionsOf(provider.hazmat) < 10) =>
       CheckOf("inspection_volume") = "REVIEW"
  /\ (NoSignal /\ Returned /\ IdentityOutcome # "FAIL") =>
       results[1].final_decision \in {"CONDITIONAL_APPROVAL", "AUTO-REJECT"}
  /\ (Returned /\ results[1].final_decision = "FULL_APPROVAL") =>
       /\ IdentityOutcome # "FAIL"
       /\ Tally("DENY") = 0
       /\ Tally("REVIEW") <= 1

\* no vehicle or driver inspections, ten hazmat inspections, everything
\* else clean: the two out-of-service REVIEWs alone withhold full approval
C11_Witness ==
  /\ Returned /\ IdentityOutcome # "FAIL" /\ NoSignal
  /\ InspectionsOf(provider.hazmat) = 10
  /\ Tally("REVIEW") = 2 /\ Tally("DENY") = 0
  /\ results[1].final_decision = "CONDITIONAL_APPROVAL"

\* the severity orders of the verdicts and of the decisions
Severity(v) == CASE v = "ACCEPT" -> 0 [] v = "REVIEW" -> 1 [] v = "DENY" -> 2

DecisionSeverity(d) ==
  CASE d = "FULL_APPROVAL" -> 0
    [] d = "CONDITIONAL_APPROVAL" -> 1
    [] d = "AUTO-REJECT" -> 2

AtLeast(v) == {w \in {"ACCEPT", "REVIEW", "DENY"} : Severity(w) >= Severity(v)}

\* the verdicts of the eight rules in the returned result, in rule order
RuleVerdicts == [i \in 1..Len(RuleNames) |-> CheckOf(RuleNames[i])]

\* the returned checks with the eight rule verdicts replaced by t
WithVerdicts(t) ==
  <<Checks[1]>> \o [i \in 1..Len(RuleNames) |-> <<RuleNames[i], t[i]>>]

Occurrences(t, v) == Cardinality({i \in 1..Len(t) : t[i] = v})

\* the tuple with d DENY first, then r REVIEW, then ACCEPT
Arranged(d, r) ==
  [i \in 1..Len(RuleNames) |->
     IF i <= d THEN "DENY" ELSE IF i <= d + r THEN "REVIEW" ELSE "ACCEPT"]

\* C12: for the verdict tuple of a run without the identity short-circuit
\* and every tuple at least as severe in each of the eight places, the
\* decision for the second tuple is at least as severe as the decision
\* returned for the first; and the returned decision is the decision for
\* the tuple that has the same numbers of DENY and REVIEW in other places.
C12_MonotoneAggregation ==
  (Returned /\ IdentityOutcome # "FAIL") =>
    LET t == RuleVerdicts
        returned == DecisionSeverity(results[1].final_decision)
    IN /\ \A v1 \in AtLeast(t[1]), v2 \in AtLeast(t[2]), v3 \in AtLeast(t[3]),
             v4 \in AtLeast(t[4]), v5 \in AtLeast(t[5]), v6 \in AtLeast(t[6]),
             v7 \in AtLeast(t[7]), v8 \in AtLeast(t[8]) :
            DecisionSeverity(FinalDecision(WithVerdicts(
                <<v1, v2, v3, v4, v5, v6, v7, v8>>)).final_decision) >= returned
       /\ FinalDecision(WithVerdicts(
             Arranged(Occurrences(t, "DENY"), Occurrences(t, "REVIEW"))))
            = [final_decision |-> results[1].final_decision,
               reason |-> results[1].reason]

\* a run returning FULL_APPROVAL with one REVIEW: a second REVIEW raises
\* the decision to CONDITIONAL_APPROVAL, a DENY raises it to AUTO-REJECT
C12_Witness ==
  /\ Returned /\ IdentityOutcome # "FAIL"
  /\ results[1].final_decision = "FULL_APPROVAL"
  /\ Occurrences(RuleVerdicts, "REVIEW") = 1
  /\ \E i \in 1..Len(RuleNames) :
        /\ RuleVerdicts[i] = "ACCEPT"
        /\ FinalDecision(WithVerdicts([RuleVerdicts EXCEPT ![i] = "REVIEW"])).final_decision
             = "CONDITIONAL_APPROVAL"
        /\ FinalDecision(WithVerdicts([RuleVerdicts EXCEPT ![i] = "DENY"])).final_decision
             = "AUTO-REJECT"

====
